---------------------------- MODULE Spec2Model ----------------------------
(***************************************************************************)
(* Benders decomposition control loop of Benders_Decomposition.py.         *)
(*                                                                         *)
(* The state is the fields of a BendersDecomposition object, the locals of *)
(* run() that live across its statements, and the position of run().  The  *)
(* two optimisation models handed to the solver are small enough to be     *)
(* solved here exactly:                                                    *)
(*   - the subproblem is the LP  max SUM r_i x_i  subject to               *)
(*     y_star + SUM x_i <= b[0],  x_i <= b[i+1],  x_i >= 0, whose basic    *)
(*     dual solutions are pi_0 in {0} \cup {r_j > 0},                      *)
(*     pi_i = max(r_i - pi_0, 0);                                          *)
(*   - the master is a MIP in one integer y >= 0 and one continuous z with *)
(*     the solver's default bounds, every constraint linear in y.          *)
(* All data of the program are integers here, so every bound and dual is   *)
(* an integer; epsilon is kept in tenths (the default 0.1 is 1 tenth).     *)
(* float('-inf') and float('inf') are the sentinels NegInf and PosInf.     *)
(***************************************************************************)
EXTENDS Integers, Sequences, FiniteSets

VARIABLES
    fund_returns,            \* self.fund_returns
    savings_account_return,  \* self.savings_account_return
    b,                       \* self.b   (1-based here: b[1] is Python's b[0])
    B,                       \* self.B
    arbitary,                \* the constructor's argument, kept for reference
    epsilon,                 \* self.epsilon, in tenths
    y_star,                  \* self.y_star
    LB,                      \* self.LB
    UB,                      \* self.UB
    iteration,               \* self.iteration
    feasibility_cuts,        \* self.feasibility_cuts
    optimality_cuts,         \* self.optimality_cuts
    dual_vars,               \* run(): dual_vars
    subproblem_status,       \* run(): subproblem_status
    obj_value_sp,            \* run(): obj_value_sp
    cut_type,                \* run(): cut_type
    master_status,           \* status of the last model optimised by solve_master_problem
    fault,                   \* the solver has ended a solve with a status other than
                             \* optimal, infeasible or unbounded (a limit, a numerical failure)
    solves,                  \* the solver calls made so far, in order: for each its kind,
                             \* the decision submitted (subproblem) or returned (master),
                             \* the status, the parameters set and the attributes read
    pc                       \* position of run()

vars == << fund_returns, savings_account_return, b, B, arbitary, epsilon,
           y_star, LB, UB, iteration, feasibility_cuts, optimality_cuts,
           dual_vars, subproblem_status, obj_value_sp, cut_type,
           master_status, fault, solves, pc >>

config == << fund_returns, savings_account_return, b, B, arbitary, epsilon >>

-----------------------------------------------------------------------------
(* Bounds of the model *)

MaxReturn == 3      \* returns and the savings return range over 0..MaxReturn
MaxBudget == 4      \* total_budget ranges over 0..MaxBudget
MaxFunds  == 2      \* number of funds ranges over 1..MaxFunds
MaxIter   == 4      \* run() is followed for at most MaxIter iterations
YSlack    == 2      \* the master's y is searched in 0..b[0]+YSlack

(* float('-inf'), float('inf') *)
NegInf == -1000000
PosInf == 1000000

(* The module-level driver's parameters *)
DriverFundReturns == << 2, 6 >>
DriverSavingsReturn == 4
DriverArbitary == 500
DriverTotalBudget == 200
DefaultEpsilon == 1

-----------------------------------------------------------------------------
(* Helpers *)

Max(x, y) == IF x >= y THEN x ELSE y

RECURSIVE SumTo(_, _)
SumTo(f, n) == IF n = 0 THEN 0 ELSE f[n] + SumTo(f, n - 1)

number_of_funds == Len(fund_returns)

(* quicksum((self.b[i] - self.B[i] * y) * dual_vars[i] for i in range(n + 1)) *)
CutExpr(d, y) ==
    SumTo([i \in 1..(number_of_funds + 1) |-> (b[i] - B[i] * y) * d[i]],
          number_of_funds + 1)

-----------------------------------------------------------------------------
(* solve_sub_problem: the LP of lines 53-61, solved exactly *)

(* The constraints of lines 56-58 have a solution *)
SubFeasible(y) ==
    /\ b[1] - y >= 0
    /\ \A i \in 1..number_of_funds : b[i + 1] >= 0

(* The feasible integer allocations; the LP has an integral optimum because *)
(* its constraint matrix is totally unimodular and its data are integers.   *)
Allocations(y) ==
    { x \in [1..number_of_funds -> 0..Max(b[2], 0)] :
        /\ y + SumTo(x, number_of_funds) <= b[1]
        /\ \A i \in 1..number_of_funds : x[i] <= b[i + 1] }

SubValue(x) ==
    SumTo([i \in 1..number_of_funds |-> fund_returns[i] * x[i]], number_of_funds)

(* model.ObjVal of an optimal subproblem *)
SubObjVal(y) ==
    LET vals == { SubValue(x) : x \in Allocations(y) }
    IN  CHOOSE v \in vals : \A w \in vals : w <= v

(* The basic solutions of the dual: pi_0 + pi_i >= r_i, pi >= 0 *)
DualVertex(p0) ==
    [i \in 1..(number_of_funds + 1) |->
        IF i = 1 THEN p0 ELSE Max(fund_returns[i - 1] - p0, 0)]

DualVertices ==
    { DualVertex(p0) :
        p0 \in {0} \cup { fund_returns[j] : j \in 1..number_of_funds } }

(* The dual objective: right-hand sides of lines 57-58 weighted by the duals *)
DualObj(d, y) ==
    (b[1] - y) * d[1]
      + SumTo([i \in 1..number_of_funds |-> b[i + 1] * d[i + 1]], number_of_funds)

(* model.getAttr(GRB.Attr.Pi) of an optimal subproblem: an optimal basic dual *)
(* solution; a degenerate LP has several and the solver returns one of them.  *)
OptimalDuals(y) == { d \in DualVertices : DualObj(d, y) = SubObjVal(y) }

(* What reading Pi of an infeasible model may hand back when it does not      *)
(* raise: a multiple of the certificate on the budget row in either sign      *)
(* convention, or nothing but zeros.                                          *)
InfeasibleDuals ==
    { [i \in 1..(number_of_funds + 1) |-> IF i = 1 THEN k ELSE 0] : k \in {-1, 0, 1} }

ZeroDuals == [i \in 1..(number_of_funds + 1) |-> 0]

-----------------------------------------------------------------------------
(* solve_master_problem: the MIP of lines 24-35, solved exactly *)

(* The values of y the search looks at; every breakpoint of the cuts lies in it *)
YRange == 0..(b[1] + YSlack)

(* Mutation of MasterRhs: the savings term of the cut is left out *)
MasterRhs_NoSavings(d, y) == CutExpr(d, y)

(* Right-hand side of an optimality cut, line 33 *)
MasterRhs(d, y) == savings_account_return * y + CutExpr(d, y)

(* Mutation of CutSet: only the newest cut is handed to the model *)
CutSet_LastOnly(cuts) == IF cuts = << >> THEN {} ELSE { cuts[Len(cuts)] }

CutSet(cuts) == { cuts[k] : k \in 1..Len(cuts) }

(* z has the default bounds of addVar: 0 <= z *)
ZLowerBound == 0

(* Some z makes (y, z) satisfy every constraint of the model *)
MasterFeasibleAt(y) ==
    /\ \A d \in CutSet(feasibility_cuts) : CutExpr(d, y) >= 0
    /\ \A d \in CutSet(optimality_cuts) : MasterRhs(d, y) >= ZLowerBound

MasterFeasible == \E y \in YRange : MasterFeasibleAt(y)

(* The largest z at y: the least right-hand side of the optimality cuts *)
MasterObj(y) ==
    LET vals == { MasterRhs(d, y) : d \in CutSet(optimality_cuts) }
    IN  CHOOSE v \in vals : \A w \in vals : v <= w

(* Derivative in y of a cut's expression: - SUM B[i] * d[i] *)
CutSlope(d) ==
    - SumTo([i \in 1..(number_of_funds + 1) |-> B[i] * d[i]], number_of_funds + 1)

(* The model has a direction along which z grows for ever: z alone when no   *)
(* optimality cut bounds it, or y and z together when every cut allows it.   *)
MasterHasRay ==
    \/ optimality_cuts = << >>
    \/ /\ \A d \in CutSet(feasibility_cuts) : CutSlope(d) >= 0
       /\ \A d \in CutSet(optimality_cuts) :
              savings_account_return + CutSlope(d) > 0

(* model.Status after model.optimize() *)
MasterStatus ==
    IF ~MasterFeasible THEN "INFEASIBLE"
    ELSE IF MasterHasRay THEN "UNBOUNDED"
    ELSE "OPTIMAL"

(* model.ObjVal of an optimal master *)
MasterObjVal ==
    LET vals == { MasterObj(y) : y \in { v \in YRange : MasterFeasibleAt(v) } }
    IN  CHOOSE v \in vals : \A w \in vals : w <= v

(* The values y.X may take: any optimal solution *)
MasterArgMax ==
    { y \in YRange : MasterFeasibleAt(y) /\ MasterObj(y) = MasterObjVal }

-----------------------------------------------------------------------------
(* __init__, lines 4-16 *)

SeqsUpTo(S, n) == UNION { [1..k -> S] : k \in 1..n }

(* The configurations the constructor is called with: small ones, and the *)
(* module-level driver's (lines 109-115).                                 *)
Configurations ==
    { << r, s, t, a, e >> :
        r \in SeqsUpTo(0..MaxReturn, MaxFunds), s \in 0..MaxReturn,
        t \in 0..MaxBudget, a \in (-1)..(MaxBudget + 1),
        e \in {0, DefaultEpsilon, 20} }
    \cup { << DriverFundReturns, DriverSavingsReturn, DriverTotalBudget,
              DriverArbitary, DefaultEpsilon >> }

Construct(returns, savings, arb, total_budget, eps) ==
    /\ fund_returns = returns
    /\ savings_account_return = savings
    /\ b = [i \in 1..(Len(returns) + 1) |->
              IF i = 1 THEN total_budget ELSE total_budget \div 2]
    /\ B = [i \in 1..(Len(returns) + 1) |-> IF i = 1 THEN 1 ELSE 0]
    /\ arbitary = arb
    /\ y_star = arb
    /\ epsilon = eps
    /\ LB = NegInf
    /\ UB = PosInf
    /\ iteration = 0
    /\ feasibility_cuts = << >>
    /\ optimality_cuts = << >>

Init ==
    /\ \E c \in Configurations : Construct(c[1], c[2], c[4], c[3], c[5])
    /\ dual_vars = << >>
    /\ subproblem_status = "NONE"
    /\ obj_value_sp = 0
    /\ cut_type = "NONE"
    /\ master_status = "NONE"
    /\ fault = FALSE
    /\ solves = << >>
    /\ pc = "loop"

-----------------------------------------------------------------------------
(* run, lines 69-99 *)

fields == << y_star, LB, UB, iteration, feasibility_cuts, optimality_cuts >>
locals == << dual_vars, subproblem_status, obj_value_sp, cut_type >>

(* model.setParam of solve_sub_problem, line 54 *)
SubParams == {"InfUnbdInfo"}

(* The attributes solve_sub_problem reads after optimize(), whatever the *)
(* status: lines 63, 64 and 65 (67 returns the same)                     *)
SubReads == {"Pi", "Status", "ObjVal"}

(* The read that raises when the model has no optimal solution, line 63 *)
SubFirstRead == {"Pi"}

(* The attributes solve_master_problem reads, line 45 *)
MasterReads == {"X", "ObjVal"}

(* The read that raises when the master has no solution, line 45 *)
MasterFirstRead == {"X"}

(* One call of solve_sub_problem: the model is built for y (line 57) *)
SubCall(y, status, reads) ==
    [kind |-> "sub", y |-> y, status |-> status,
     params |-> SubParams, reads |-> reads]

(* One call of solve_master_problem: no parameter is set (lines 24-35) *)
MasterCall(y, status, reads) ==
    [kind |-> "master", y |-> y, status |-> status,
     params |-> {}, reads |-> reads]

(* self.UB - self.LB > self.epsilon, in floating point with infinities *)
GapExceeds(ub, lb, eps) ==
    IF ub = PosInf \/ lb = NegInf THEN TRUE ELSE 10 * (ub - lb) > eps

(* line 71 true, line 72 *)
LoopEnter ==
    /\ pc = "loop"
    /\ GapExceeds(UB, LB, epsilon)
    /\ iteration < MaxIter
    /\ iteration' = iteration + 1
    /\ pc' = "sub"
    /\ UNCHANGED << config, y_star, LB, UB, feasibility_cuts, optimality_cuts,
                    locals, master_status, fault, solves >>

(* line 71 false, lines 101-106 *)
LoopExit ==
    /\ pc = "loop"
    /\ ~GapExceeds(UB, LB, epsilon)
    /\ pc' = "done"
    /\ UNCHANGED << config, fields, locals, master_status, fault, solves >>

(* line 79, the subproblem has an optimum *)
SubOptimal ==
    /\ pc = "sub"
    /\ SubFeasible(y_star)
    /\ \E d \in OptimalDuals(y_star) : dual_vars' = d
    /\ subproblem_status' = "OPTIMAL"
    /\ obj_value_sp' = SubObjVal(y_star)
    /\ solves' = Append(solves, SubCall(y_star, "OPTIMAL", SubReads))
    /\ pc' = "classify"
    /\ UNCHANGED << config, fields, cut_type, master_status, fault >>

(* line 79, the subproblem is infeasible and lines 63-65 read values *)
SubInfeasible ==
    /\ pc = "sub"
    /\ ~SubFeasible(y_star)
    /\ \E d \in InfeasibleDuals : dual_vars' = d
    /\ subproblem_status' = "INFEASIBLE"
    /\ obj_value_sp' = 0
    /\ solves' = Append(solves, SubCall(y_star, "INFEASIBLE", SubReads))
    /\ pc' = "classify"
    /\ UNCHANGED << config, fields, cut_type, master_status, fault >>

(* line 79, the solver ends with another status (a limit, a numerical *)
(* failure, a suboptimal solution) and lines 63-65 read values         *)
SubOther ==
    /\ pc = "sub"
    /\ dual_vars' = ZeroDuals
    /\ subproblem_status' = "OTHER"
    /\ obj_value_sp' = 0
    /\ fault' = TRUE
    /\ solves' = Append(solves, SubCall(y_star, "OTHER", SubReads))
    /\ pc' = "classify"
    /\ UNCHANGED << config, fields, cut_type, master_status >>

(* line 79, the model has no optimal solution and reading Pi (line 63) or *)
(* ObjVal (line 65) raises: the exception leaves run()                    *)
SubAttrError ==
    /\ pc = "sub"
    /\ fault' = (fault \/ SubFeasible(y_star))
    /\ solves' = Append(solves,
           SubCall(y_star, IF SubFeasible(y_star) THEN "OTHER" ELSE "INFEASIBLE",
                   SubFirstRead))
    /\ pc' = "crashed"
    /\ UNCHANGED << config, fields, locals, master_status >>

(* Mutation of AddFeasibilityCut: the vector goes to the wrong list *)
AddFeasibilityCut_Swapped ==
    /\ pc = "classify"
    /\ subproblem_status = "INFEASIBLE"
    /\ optimality_cuts' = Append(optimality_cuts, dual_vars)
    /\ cut_type' = "Feasibility Cut"
    /\ pc' = "master"
    /\ UNCHANGED << config, y_star, LB, UB, iteration, feasibility_cuts,
                    dual_vars, subproblem_status, obj_value_sp,
                    master_status, fault, solves >>

(* Mutation of AddFeasibilityCut: the infeasible branch updates LB as the *)
(* optimal branch does                                                    *)
AddFeasibilityCut_UpdatesLB ==
    /\ pc = "classify"
    /\ subproblem_status = "INFEASIBLE"
    /\ LB' = Max(LB, savings_account_return * y_star + obj_value_sp)
    /\ feasibility_cuts' = Append(feasibility_cuts, dual_vars)
    /\ cut_type' = "Feasibility Cut"
    /\ pc' = "master"
    /\ UNCHANGED << config, y_star, UB, iteration, optimality_cuts,
                    dual_vars, subproblem_status, obj_value_sp,
                    master_status, fault, solves >>

(* lines 81-83 *)
AddFeasibilityCut ==
    /\ pc = "classify"
    /\ subproblem_status = "INFEASIBLE"
    /\ feasibility_cuts' = Append(feasibility_cuts, dual_vars)
    /\ cut_type' = "Feasibility Cut"
    /\ pc' = "master"
    /\ UNCHANGED << config, y_star, LB, UB, iteration, optimality_cuts,
                    dual_vars, subproblem_status, obj_value_sp,
                    master_status, fault, solves >>

(* Mutation of NewLB: the new value replaces LB without the max *)
NewLB_NoMax(lb, y, obj) == savings_account_return * y + obj

(* Mutation of NewLB: the savings term of the decision is left out *)
NewLB_NoSavings(lb, y, obj) == Max(lb, obj)

(* line 85 *)
NewLB(lb, y, obj) == Max(lb, savings_account_return * y + obj)

(* lines 84-87 *)
AddOptimalityCut ==
    /\ pc = "classify"
    /\ subproblem_status = "OPTIMAL"
    /\ LB' = NewLB(LB, y_star, obj_value_sp)
    /\ optimality_cuts' = Append(optimality_cuts, dual_vars)
    /\ cut_type' = "Optimality Cut"
    /\ pc' = "master"
    /\ UNCHANGED << config, y_star, UB, iteration, feasibility_cuts,
                    dual_vars, subproblem_status, obj_value_sp,
                    master_status, fault, solves >>

(* Mutation of AfterUndefined: the subproblem is solved again at once *)
AfterUndefined_Retry == "sub"

(* where run() goes after the else branch, lines 88-90 *)
AfterUndefined == "master"

(* lines 88-90 *)
UndefinedStatus ==
    /\ pc = "classify"
    /\ subproblem_status \notin {"INFEASIBLE", "OPTIMAL"}
    /\ cut_type' = "Undefined"
    /\ pc' = AfterUndefined
    /\ UNCHANGED << config, fields, dual_vars, subproblem_status,
                    obj_value_sp, master_status, fault, solves >>

(* Mutation of MasterOptimal: the solve advances the iteration counter *)
MasterOptimal_Counts ==
    /\ pc = "master"
    /\ MasterStatus = "OPTIMAL"
    /\ \E y \in MasterArgMax : y_star' = y
    /\ UB' = MasterObjVal
    /\ iteration' = iteration + 1
    /\ master_status' = "OPTIMAL"
    /\ solves' = Append(solves, MasterCall(y_star', "OPTIMAL", MasterReads))
    /\ pc' = "loop"
    /\ UNCHANGED << config, LB, feasibility_cuts, optimality_cuts,
                    locals, fault >>

(* line 98, the master has an optimum: y.X and ObjVal are returned *)
MasterOptimal ==
    /\ pc = "master"
    /\ MasterStatus = "OPTIMAL"
    /\ \E y \in MasterArgMax : y_star' = y
    /\ UB' = MasterObjVal
    /\ master_status' = "OPTIMAL"
    /\ solves' = Append(solves, MasterCall(y_star', "OPTIMAL", MasterReads))
    /\ pc' = "loop"
    /\ UNCHANGED << config, LB, iteration, feasibility_cuts, optimality_cuts,
                    locals, fault >>

(* Mutation of MasterAttrError: the status is not looked at and the loop *)
(* goes on with the values it had                                        *)
MasterAttrError_Ignored ==
    /\ pc = "master"
    /\ MasterStatus # "OPTIMAL"
    /\ master_status' = MasterStatus
    /\ solves' = Append(solves, MasterCall(y_star, MasterStatus, MasterFirstRead))
    /\ pc' = "loop"
    /\ UNCHANGED << config, fields, locals, fault >>

(* line 98, the master is infeasible or unbounded: no solution exists and *)
(* reading y.X (line 45) raises; the exception leaves run()               *)
MasterAttrError ==
    /\ pc = "master"
    /\ MasterStatus # "OPTIMAL"
    /\ master_status' = MasterStatus
    /\ solves' = Append(solves, MasterCall(y_star, MasterStatus, MasterFirstRead))
    /\ pc' = "crashed"
    /\ UNCHANGED << config, fields, locals, fault >>

Next ==
    \/ LoopEnter
    \/ LoopExit
    \/ SubOptimal
    \/ SubInfeasible
    \/ SubOther
    \/ SubAttrError
    \/ AddFeasibilityCut
    \/ AddOptimalityCut
    \/ UndefinedStatus
    \/ MasterOptimal
    \/ MasterAttrError

Spec == Init /\ [][Next]_vars

-----------------------------------------------------------------------------
(* solve_master_problem on its own: called once on an object whose cut     *)
(* lists hold vectors the subproblem can return (optimal basic duals for    *)
(* the optimality cuts, certificates for the feasibility cuts); the savings *)
(* return may be negative.                                                  *)

MasterInit ==
    /\ \E r \in SeqsUpTo(0..MaxReturn, MaxFunds), s \in (-1)..MaxReturn,
          t \in 0..MaxBudget :
          /\ fund_returns = r
          /\ savings_account_return = s
          /\ b = [i \in 1..(Len(r) + 1) |-> IF i = 1 THEN t ELSE t \div 2]
          /\ B = [i \in 1..(Len(r) + 1) |-> IF i = 1 THEN 1 ELSE 0]
    /\ arbitary = 0
    /\ y_star = 0
    /\ epsilon = DefaultEpsilon
    /\ LB = NegInf
    /\ UB = PosInf
    /\ iteration = 1
    /\ feasibility_cuts \in SeqsUpTo(InfeasibleDuals, 1) \cup { << >> }
    /\ optimality_cuts \in SeqsUpTo(DualVertices, 2) \cup { << >> }
    /\ dual_vars = << >>
    /\ subproblem_status = "NONE"
    /\ obj_value_sp = 0
    /\ cut_type = "NONE"
    /\ master_status = "NONE"
    /\ fault = FALSE
    /\ solves = << >>
    /\ pc = "master"

MasterNext ==
    \/ MasterOptimal
    \/ MasterAttrError

MasterSpec == MasterInit /\ [][MasterNext]_vars

-----------------------------------------------------------------------------
(* Properties *)

TotalCuts == Len(feasibility_cuts) + Len(optimality_cuts)

(* The instance is well posed: every limit and every return is positive, so  *)
(* the undecomposed problem has a finite optimum (y <= b[0], x_i <= b[i+1]), *)
(* and the initial decision is a non-negative integer within the budget.     *)
WellPosed ==
    /\ \A i \in 1..(number_of_funds + 1) : b[i] > 0
    /\ \A i \in 1..number_of_funds : fund_returns[i] > 0
    /\ savings_account_return > 0
    /\ arbitary >= 0 /\ arbitary <= b[1]

(* C1: on a well-posed instance with epsilon > 0 and a solver that answers    *)
(* every solve, run() ends in Converged with UB - LB <= epsilon: it never     *)
(* ends in an exception, and where it ends the gap is closed.                 *)
C1_Convergence ==
    (WellPosed /\ epsilon > 0 /\ ~fault) =>
        /\ pc # "crashed"
        /\ pc = "done" => ~GapExceeds(UB, LB, epsilon)

(* C2: in every step of run() LB does not decrease and UB does not increase,  *)
(* starting from LB = -inf and UB = +inf.                                     *)
C2_MonotonicBounds == [][LB' >= LB /\ UB' <= UB]_vars

(* C2 witness: a second master solve has replaced a finite UB and LB is finite *)
C2_Witness ==
    /\ pc = "loop" /\ iteration >= 2
    /\ Len(optimality_cuts) >= 2
    /\ LB > NegInf /\ UB < PosInf

(* C3: every completed iteration (subproblem solve, then master solve) adds   *)
(* exactly one cut, whatever the subproblem's status: back at the loop test   *)
(* the store holds as many cuts as iterations were completed.                 *)
C3_OneCutPerIteration == (WellPosed /\ pc = "loop") => TotalCuts = iteration

(* C4: an Infeasible result appends its vector to the feasibility cuts and    *)
(* leaves the optimality cuts alone, an Optimal result appends to the         *)
(* optimality cuts and leaves the feasibility cuts alone, and no other step   *)
(* changes either list.                                                       *)
C4_CutClassification ==
    [][ /\ (pc = "classify" /\ subproblem_status = "INFEASIBLE") =>
              /\ feasibility_cuts' = Append(feasibility_cuts, dual_vars)
              /\ optimality_cuts' = optimality_cuts
        /\ (pc = "classify" /\ subproblem_status = "OPTIMAL") =>
              /\ optimality_cuts' = Append(optimality_cuts, dual_vars)
              /\ feasibility_cuts' = feasibility_cuts
        /\ (pc # "classify") =>
              /\ feasibility_cuts' = feasibility_cuts
              /\ optimality_cuts' = optimality_cuts ]_vars

(* C4 witness: an Infeasible result has been classified, and its certificate *)
(* is the only cut of the store                                              *)
C4_Witness ==
    /\ pc = "master" /\ cut_type = "Feasibility Cut"
    /\ dual_vars[1] # 0
    /\ feasibility_cuts = << dual_vars >>
    /\ optimality_cuts = << >>

(* C5: after a subproblem status that is neither Optimal nor Infeasible the   *)
(* controller has failed: no master solve is issued and no further iteration  *)
(* starts.                                                                    *)
C5_UndefinedIsFatal ==
    (WellPosed /\ cut_type = "Undefined") =>
        pc \notin {"master", "loop", "sub", "classify"}

(* C6: a master solve that ends Infeasible or Unbounded halts run() in a      *)
(* failure state with the candidate decision and UB as they were, and run()   *)
(* takes no step after that.                                                  *)
C6_MasterFailureIsFatal ==
    [][ /\ (pc = "master" /\ MasterStatus # "OPTIMAL") =>
              /\ pc' = "crashed"
              /\ y_star' = y_star
              /\ UB' = UB
        /\ pc # "crashed" ]_vars

(* C6 witness: run() has ended on a master without an optimum *)
C6_Witness ==
    /\ pc = "crashed"
    /\ master_status \in {"INFEASIBLE", "UNBOUNDED"}

(* C7: whenever run() calls solve_master_problem (on a well-posed instance,   *)
(* every solve so far answered) the model is feasible and bounded above.      *)
C7_MasterBounded ==
    (WellPosed /\ ~fault /\ pc = "master") => MasterStatus = "OPTIMAL"

(* C8: with an initial decision outside the domain (negative) run() fails at  *)
(* once: no solve is attempted and no cut or bound changes.                   *)
C8_InvalidInitialDecision ==
    arbitary < 0 =>
        /\ pc \notin {"sub", "classify", "master", "done"}
        /\ TotalCuts = 0
        /\ LB = NegInf /\ UB = PosInf

IsDriver ==
    /\ fund_returns = DriverFundReturns
    /\ savings_account_return = DriverSavingsReturn
    /\ b[1] = DriverTotalBudget
    /\ arbitary = DriverArbitary
    /\ epsilon = DefaultEpsilon

(* C10: with the driver's parameters (returns [2, 6], savings return 4,       *)
(* budget 200, initial decision 500, epsilon 0.1) run() terminates with       *)
(* UB - LB <= 0.1 at a decision y with B[0]*y <= b[0] that satisfies every    *)
(* feasibility cut: it never ends in an exception.                            *)
C10_DriverScenario ==
    (IsDriver /\ ~fault) =>
        /\ pc # "crashed"
        /\ pc = "done" =>
              /\ ~GapExceeds(UB, LB, epsilon)
              /\ B[1] * y_star <= b[1]
              /\ \A d \in CutSet(feasibility_cuts) : CutExpr(d, y_star) >= 0

(* The undecomposed problem: maximize savings*y + SUM r_i x_i subject to     *)
(* y + SUM x_i <= b[0], x_i <= b[i+1], x_i >= 0, y a non-negative integer.   *)
(* Its value at y with the best allocation, and its optimum.                 *)
TrueValue(y) == savings_account_return * y + SubObjVal(y)

TrueOptimum ==
    LET vals == { TrueValue(y) : y \in 0..b[1] }
    IN  CHOOSE v \in vals : \A w \in vals : w <= v

LastSolve == solves[Len(solves)]

(* C11: when run() ends in Converged on a well-posed instance (the last      *)
(* master having a single optimal y), the result (y_star, UB) is the         *)
(* decision and bound of the last master solve, UB is within epsilon of the  *)
(* optimum of the undecomposed problem, and the decision is feasible and     *)
(* attains that optimum within epsilon.                                      *)
C11_ConvergedResult ==
    (WellPosed /\ ~fault /\ pc = "done" /\ Cardinality(MasterArgMax) = 1) =>
        /\ LastSolve.kind = "master" /\ LastSolve.y = y_star
        /\ UB = MasterObjVal
        /\ UB >= TrueOptimum /\ 10 * (UB - TrueOptimum) <= epsilon
        /\ SubFeasible(y_star)
        /\ 10 * (TrueOptimum - TrueValue(y_star)) <= epsilon

IsPrefix(s, t) == Len(s) <= Len(t) /\ \A i \in 1..Len(s) : s[i] = t[i]

(* C13: every step leaves each cut list an extension of what it was, and the *)
(* result of every master solve satisfies every cut of both lists.           *)
C13_CutsAppendOnly ==
    [][ /\ IsPrefix(feasibility_cuts, feasibility_cuts')
        /\ IsPrefix(optimality_cuts, optimality_cuts')
        /\ (pc = "master" /\ pc' = "loop") =>
              /\ \A k \in 1..Len(feasibility_cuts) :
                     CutExpr(feasibility_cuts[k], y_star') >= 0
              /\ \A k \in 1..Len(optimality_cuts) :
                     UB' <= savings_account_return * y_star'
                              + CutExpr(optimality_cuts[k], y_star') ]_vars

(* C13 witness: a master solve has returned on a store of two different cuts *)
C13_Witness ==
    /\ pc = "loop" /\ master_status = "OPTIMAL"
    /\ LastSolve.kind = "master"
    /\ Len(optimality_cuts) >= 2
    /\ optimality_cuts[1] # optimality_cuts[2]

(* C14: an Optimal result sets LB to max(LB, savings * d + objective), d the *)
(* decision the subproblem was solved for and still the candidate (the       *)
(* master of this iteration has not run), objective that subproblem's        *)
(* optimum; LB changes at no other step.                                     *)
C14_LBUpdate ==
    [][ /\ (pc = "classify" /\ subproblem_status = "OPTIMAL") =>
              /\ LastSolve.kind = "sub" /\ LastSolve.y = y_star
              /\ LB' = Max(LB, savings_account_return * LastSolve.y
                                 + SubObjVal(LastSolve.y))
        /\ (LB' # LB) => (pc = "classify" /\ subproblem_status = "OPTIMAL") ]_vars

(* C14 witness: a later iteration has raised LB with a decision that earns *)
(* savings and a subproblem that earns returns                             *)
C14_Witness ==
    /\ pc = "master" /\ cut_type = "Optimality Cut"
    /\ iteration >= 2
    /\ savings_account_return * y_star > 0 /\ obj_value_sp > 0
    /\ LB = savings_account_return * y_star + obj_value_sp

(* C15: the solver calls of a run are subproblem, master, subproblem, ...:   *)
(* the first is a subproblem at the caller's decision, every later           *)
(* subproblem is solved at the decision the master just before it returned,  *)
(* and a solve is under way only between the loop test and the next one.     *)
C15_SolvesAlternate ==
    /\ \A i \in 1..Len(solves) :
          /\ solves[i].kind = (IF i % 2 = 1 THEN "sub" ELSE "master")
          /\ (i = 1) => solves[i].y = arbitary
          /\ (i > 1 /\ i % 2 = 1) =>
                /\ solves[i - 1].status = "OPTIMAL"
                /\ solves[i].y = solves[i - 1].y
    /\ (pc = "sub") => Len(solves) = 2 * iteration - 2
    /\ (pc \in {"classify", "master"}) => Len(solves) = 2 * iteration - 1
    /\ (pc \in {"loop", "done"}) => Len(solves) = 2 * iteration

(* C15 witness: a second subproblem has been solved at a decision the master *)
(* chose, and the master after it has returned                               *)
C15_Witness ==
    /\ pc = "loop" /\ Len(solves) >= 4
    /\ solves[3].y # solves[1].y

(* The master with z free: the decisions that satisfy the feasibility cuts, *)
(* and the largest value of the least optimality cut over them              *)
FreeFeasible ==
    { y \in YRange : \A d \in CutSet(feasibility_cuts) : CutExpr(d, y) >= 0 }

FreeOptimum ==
    LET vals == { MasterObj(y) : y \in FreeFeasible }
    IN  CHOOSE v \in vals : \A w \in vals : w <= v

(* C16: z is free: whenever the maximum over the non-negative integers y     *)
(* that satisfy every feasibility cut of the least optimality cut exists,    *)
(* solve_master_problem returns it as UB, also when it is negative.          *)
C16_FreeSurrogate ==
    (pc # "master" /\ optimality_cuts # << >> /\ FreeFeasible # {}
        /\ ~MasterHasRay) =>
        /\ pc = "loop"
        /\ UB = FreeOptimum

(* C17: every subproblem solve sets InfUnbdInfo; from a solve that ends      *)
(* Infeasible neither Pi nor ObjVal is read and the certificate FarkasDual   *)
(* is; Pi and ObjVal are read only from a solve that ends Optimal.           *)
C17_CertificateMatchesVariant ==
    ~fault =>
        \A i \in 1..Len(solves) :
            (solves[i].kind = "sub") =>
                /\ "InfUnbdInfo" \in solves[i].params
                /\ (solves[i].status = "INFEASIBLE") =>
                      /\ solves[i].reads \cap {"Pi", "ObjVal"} = {}
                      /\ "FarkasDual" \in solves[i].reads
                /\ (solves[i].reads \cap {"Pi", "ObjVal"} # {}) =>
                      solves[i].status = "OPTIMAL"

C19_BoundsNeverCross == (arbitary >= 0) => LB <= UB

(* C19 witness: both bounds are finite and a gap is left *)
C19_Witness ==
    /\ arbitary >= 0
    /\ pc = "loop" /\ iteration >= 2
    /\ LB > NegInf /\ UB < PosInf /\ LB < UB

=============================================================================
